---------------------------- MODULE Spec2Model ----------------------------
(***************************************************************************)
(* Riding-conditions scorer of the home screen (calculateRidingConditions) *)
(* as a state machine: a WeatherInfo reading is handed to the scorer, the  *)
(* scorer's RidingConditions is stored.                                    *)
(*                                                                         *)
(* An optional value (a `?:` field, undefined/null) is a sequence of       *)
(* length 0 (absent) or 1 (present): <<>> or <<v>>.                        *)
(***************************************************************************)
EXTENDS Integers, Sequences, FiniteSets, TLC

VARIABLES
    weather,            \* the WeatherInfo handed to the scorer; on the home
                        \* screen the weather state, <<>> (null) or <<WeatherInfo>>
    ridingConditions,   \* <<>> before the call, <<RidingConditions>> after it
    data,               \* <<>>, or <<the parsed forecast response>>
    args,               \* <<>>, or the arguments of the helper being called
    returned,           \* <<>> before the helper returns, <<value>> after it
    \* the home screen (Index): its useState values
    loading, error, address, places, location, lastUpdated,
    runs,               \* the loadData invocations: where each stands, and
                        \* the promises it holds
    \* the map preview of the home screen
    googleMapsStaticKey, mapProviderIndex, mapError, mapErrorMessage,
    mapImageLoading, mapImageLoaded,
    \* the trip store (tripUtils)
    storage,            \* the key-value string store
    calls,              \* the saveWaypoint, deleteWaypoint, saveRoute and
                        \* deleteRoute calls: where each stands, and its locals
    now                 \* Date.now()

homeVars == <<loading, error, address, places, location, lastUpdated, runs>>

mapVars == <<googleMapsStaticKey, mapProviderIndex, mapError, mapErrorMessage,
             mapImageLoading, mapImageLoaded>>

tripVars == <<storage, calls, now>>

vars == <<weather, ridingConditions, data, args, returned,
          homeVars, mapVars, tripVars>>

\* the home screen after construction (its useState initial values), with no
\* loadData invocation made
HomeInit ==
    /\ loading = FALSE
    /\ error = <<>>
    /\ address = <<>>
    /\ places = <<>>
    /\ location = <<>>
    /\ lastUpdated = <<>>
    /\ runs = <<>>

\* the map preview after construction
MapInit ==
    /\ googleMapsStaticKey = <<>>
    /\ mapProviderIndex = 0
    /\ mapError = FALSE
    /\ mapErrorMessage = <<>>
    /\ mapImageLoading = FALSE
    /\ mapImageLoaded = FALSE

\* the trip store with nothing saved and no call made
TripInit ==
    /\ storage = [saved_waypoints |-> <<>>, trip_routes |-> <<>>]
    /\ calls = <<>>
    /\ now = 0

---------------------------------------------------------------------------
(* Bounds of the inputs *)

\* longest hourly precipitation-probability series that is enumerated
MaxHours == 7

\* x ?? d
Coalesce(x, d) == IF x = <<>> THEN d ELSE x[1]

Opt(S) == {<<>>} \cup {<<v>> : v \in S}

SeqsUpTo(S, n) == UNION {[1..k -> S] : k \in 0..n}

\* sample values on both sides of every threshold of the scorer
Temperatures == {2, 5, 9, 10, 20, 25, 27, 30, 31}
WindSpeeds == {0, 5, 6, 10, 15, 20}
Precipitations == {0, 1, 2, 5, 8}
Probabilities == {0, 30, 31, 60, 61, 80, 90}
WeatherCodes == {0, 45, 48, 61, 71, 73, 75, 77, 85, 95, 96, 99}
HourlyProbabilities == {10, 70, 75}

\* hourlyForecast: only the precipitationProbability series is read by the scorer
Forecast(s) == <<[precipitationProbability |-> s]>>

WeatherInfo(t, w, p, q, c, h) ==
    [temperatureC |-> t, windSpeed |-> w, precipitation |-> p,
     precipitationProbability |-> q, weatherCode |-> c, hourlyForecast |-> h]

\* every combination of the current fields, without and with a forecast
CurrentReadings ==
    {WeatherInfo(t, w, p, q, c, h) :
        t \in Opt(Temperatures), w \in Opt(WindSpeeds),
        p \in Opt(Precipitations), q \in Opt(Probabilities),
        c \in Opt(WeatherCodes),
        h \in {<<>>, Forecast(<<75, 10, 10, 10, 10, 10>>)}}

\* every hourly series up to MaxHours entries, on a few current readings
ForecastReadings ==
    {WeatherInfo(t, <<>>, <<>>, q, <<>>, Forecast(s)) :
        t \in {<<>>, <<27>>}, q \in {<<>>, <<61>>},
        s \in SeqsUpTo(HourlyProbabilities, MaxHours)}

Readings == CurrentReadings \cup ForecastReadings

---------------------------------------------------------------------------
(* calculateRidingConditions *)

\* Push with unshift in place of push: the new alert goes to the front
PushFront(acc, d, a, r) ==
    [score |-> acc.score - d,
     alerts |-> <<a>> \o acc.alerts,
     recommendations |-> <<r>> \o acc.recommendations]

\* Push without recommendations.push(r)
PushAlertOnly(acc, d, a, r) ==
    [score |-> acc.score - d,
     alerts |-> Append(acc.alerts, a),
     recommendations |-> acc.recommendations]

\* score -= d; alerts.push(a); recommendations.push(r)
Push(acc, d, a, r) ==
    [score |-> acc.score - d,
     alerts |-> Append(acc.alerts, a),
     recommendations |-> Append(acc.recommendations, r)]

\* TemperatureFactors with `?? 0` in place of `?? 20`
TemperatureFactorsDefaultZero(acc, w) ==
    LET temp == Coalesce(w.temperatureC, 0) IN
    IF temp < 5 THEN
        Push(acc, 40, "Very cold - risk of frostbite",
             "Wear thermal gear, consider heated grips")
    ELSE IF temp < 10 THEN
        Push(acc, 20, "Cold weather", "Wear warm layers")
    ELSE IF temp > 30 THEN
        Push(acc, 30, "Very hot - risk of heat exhaustion",
             "Stay hydrated, wear light clothing")
    ELSE IF temp > 25 THEN
        Push(acc, 15, "Hot weather", "Drink water regularly")
    ELSE acc

\* TemperatureFactors with `temp <= 5` in place of `temp < 5`
TemperatureFactorsInclusive(acc, w) ==
    LET temp == Coalesce(w.temperatureC, 20) IN
    IF temp <= 5 THEN
        Push(acc, 40, "Very cold - risk of frostbite",
             "Wear thermal gear, consider heated grips")
    ELSE IF temp < 10 THEN
        Push(acc, 20, "Cold weather", "Wear warm layers")
    ELSE IF temp > 30 THEN
        Push(acc, 30, "Very hot - risk of heat exhaustion",
             "Stay hydrated, wear light clothing")
    ELSE IF temp > 25 THEN
        Push(acc, 15, "Hot weather", "Drink water regularly")
    ELSE acc

\* TemperatureFactors with independent `if`s in place of the `else if` chain
TemperatureFactorsNoElse(acc, w) ==
    LET temp == Coalesce(w.temperatureC, 20)
        a1 == IF temp < 5
              THEN Push(acc, 40, "Very cold - risk of frostbite",
                        "Wear thermal gear, consider heated grips")
              ELSE acc
        a2 == IF temp < 10
              THEN Push(a1, 20, "Cold weather", "Wear warm layers")
              ELSE a1
        a3 == IF temp > 30
              THEN Push(a2, 30, "Very hot - risk of heat exhaustion",
                        "Stay hydrated, wear light clothing")
              ELSE a2
    IN IF temp > 25
       THEN Push(a3, 15, "Hot weather", "Drink water regularly")
       ELSE a3

TemperatureFactors(acc, w) ==
    LET temp == Coalesce(w.temperatureC, 20) IN
    IF temp < 5 THEN
        Push(acc, 40, "Very cold - risk of frostbite",
             "Wear thermal gear, consider heated grips")
    ELSE IF temp < 10 THEN
        Push(acc, 20, "Cold weather", "Wear warm layers")
    ELSE IF temp > 30 THEN
        Push(acc, 30, "Very hot - risk of heat exhaustion",
             "Stay hydrated, wear light clothing")
    ELSE IF temp > 25 THEN
        Push(acc, 15, "Hot weather", "Drink water regularly")
    ELSE acc

\* WindFactors with the deductions of the first and the last band exchanged
WindFactorsSwapped(acc, w) ==
    LET windSpeed == Coalesce(w.windSpeed, 0) IN
    IF windSpeed > 15 THEN
        Push(acc, 10, "Very windy - dangerous riding conditions",
             "Avoid riding if possible, use extreme caution")
    ELSE IF windSpeed > 10 THEN
        Push(acc, 30, "Strong winds", "Lean into wind, reduce speed")
    ELSE IF windSpeed > 5 THEN
        Push(acc, 50, "Moderate winds", "Be cautious on exposed roads")
    ELSE acc

\* WindFactors with `windSpeed >= 15` in place of `windSpeed > 15`
WindFactorsInclusive(acc, w) ==
    LET windSpeed == Coalesce(w.windSpeed, 0) IN
    IF windSpeed >= 15 THEN
        Push(acc, 50, "Very windy - dangerous riding conditions",
             "Avoid riding if possible, use extreme caution")
    ELSE IF windSpeed > 10 THEN
        Push(acc, 30, "Strong winds", "Lean into wind, reduce speed")
    ELSE IF windSpeed > 5 THEN
        Push(acc, 10, "Moderate winds", "Be cautious on exposed roads")
    ELSE acc

WindFactors(acc, w) ==
    LET windSpeed == Coalesce(w.windSpeed, 0) IN
    IF windSpeed > 15 THEN
        Push(acc, 50, "Very windy - dangerous riding conditions",
             "Avoid riding if possible, use extreme caution")
    ELSE IF windSpeed > 10 THEN
        Push(acc, 30, "Strong winds", "Lean into wind, reduce speed")
    ELSE IF windSpeed > 5 THEN
        Push(acc, 10, "Moderate winds", "Be cautious on exposed roads")
    ELSE acc

\* PrecipitationFactors with `precipProb >= 30` in place of `precipProb > 30`
PrecipitationFactorsInclusive(acc, w) ==
    LET precipProb == Coalesce(w.precipitationProbability, 0)
        currentPrecip == Coalesce(w.precipitation, 0)
    IN
    IF currentPrecip > 5 \/ precipProb > 80 THEN
        Push(acc, 60, "Heavy rain - extremely dangerous",
             "Do not ride, seek shelter")
    ELSE IF currentPrecip > 1 \/ precipProb > 60 THEN
        Push(acc, 40, "Rain expected",
             "Wear waterproof gear, reduce speed, increase following distance")
    ELSE IF precipProb >= 30 THEN
        Push(acc, 20, "Possible rain",
             "Check weather frequently, be prepared for rain")
    ELSE acc

\* PrecipitationFactors with `&&` in place of `||` in the heavy-rain test
PrecipitationFactorsBoth(acc, w) ==
    LET precipProb == Coalesce(w.precipitationProbability, 0)
        currentPrecip == Coalesce(w.precipitation, 0)
    IN
    IF currentPrecip > 5 /\ precipProb > 80 THEN
        Push(acc, 60, "Heavy rain - extremely dangerous",
             "Do not ride, seek shelter")
    ELSE IF currentPrecip > 1 \/ precipProb > 60 THEN
        Push(acc, 40, "Rain expected",
             "Wear waterproof gear, reduce speed, increase following distance")
    ELSE IF precipProb > 30 THEN
        Push(acc, 20, "Possible rain",
             "Check weather frequently, be prepared for rain")
    ELSE acc

PrecipitationFactors(acc, w) ==
    LET precipProb == Coalesce(w.precipitationProbability, 0)
        currentPrecip == Coalesce(w.precipitation, 0)
    IN
    IF currentPrecip > 5 \/ precipProb > 80 THEN
        Push(acc, 60, "Heavy rain - extremely dangerous",
             "Do not ride, seek shelter")
    ELSE IF currentPrecip > 1 \/ precipProb > 60 THEN
        Push(acc, 40, "Rain expected",
             "Wear waterproof gear, reduce speed, increase following distance")
    ELSE IF precipProb > 30 THEN
        Push(acc, 20, "Possible rain",
             "Check weather frequently, be prepared for rain")
    ELSE acc

\* WeatherCodeFactors with the snow-shower code 85 counted among the snow codes
WeatherCodeFactorsShowers(acc, w) ==
    LET weatherCode == Coalesce(w.weatherCode, 0) IN
    IF weatherCode \in {95, 96, 99} THEN
        Push(acc, 70, "Thunderstorm - extremely dangerous",
             "Do not ride, seek shelter immediately")
    ELSE IF weatherCode \in {71, 73, 75, 77, 85} THEN
        Push(acc, 50, "Snow/ice conditions", "Do not ride, roads may be icy")
    ELSE IF weatherCode \in {45, 48} THEN
        Push(acc, 15, "Foggy conditions",
             "Use headlights, reduce speed, increase following distance")
    ELSE acc

WeatherCodeFactors(acc, w) ==
    LET weatherCode == Coalesce(w.weatherCode, 0) IN
    IF weatherCode \in {95, 96, 99} THEN
        Push(acc, 70, "Thunderstorm - extremely dangerous",
             "Do not ride, seek shelter immediately")
    ELSE IF weatherCode \in {71, 73, 75, 77} THEN
        Push(acc, 50, "Snow/ice conditions", "Do not ride, roads may be icy")
    ELSE IF weatherCode \in {45, 48} THEN
        Push(acc, 15, "Foggy conditions",
             "Use headlights, reduce speed, increase following distance")
    ELSE acc

\* s.slice(0, n)
Slice0(s, n) == SubSeq(s, 1, IF Len(s) < n THEN Len(s) ELSE n)

\* Math.max(...s) > limit; Math.max() of no arguments is -Infinity
RECURSIVE MathMaxExceeds(_, _)
MathMaxExceeds(s, limit) ==
    IF s = <<>> THEN FALSE
    ELSE Head(s) > limit \/ MathMaxExceeds(Tail(s), limit)

\* ForecastCheck deducting 20 in place of 25
ForecastCheckTwenty(acc, w) ==
    IF w.hourlyForecast # <<>> THEN
        LET nextHours == Slice0(w.hourlyForecast[1].precipitationProbability, 6) IN
        IF MathMaxExceeds(nextHours, 70) THEN
            Push(acc, 20, "Rain likely in next few hours",
                 "Plan route to avoid bad weather")
        ELSE acc
    ELSE acc

\* ForecastCheck without the slice(0, 6): the whole series is examined
ForecastCheckNoSlice(acc, w) ==
    IF w.hourlyForecast # <<>> THEN
        LET nextHours == w.hourlyForecast[1].precipitationProbability IN
        IF MathMaxExceeds(nextHours, 70) THEN
            Push(acc, 25, "Rain likely in next few hours",
                 "Plan route to avoid bad weather")
        ELSE acc
    ELSE acc

ForecastCheck(acc, w) ==
    IF w.hourlyForecast # <<>> THEN
        LET nextHours == Slice0(w.hourlyForecast[1].precipitationProbability, 6) IN
        IF MathMaxExceeds(nextHours, 70) THEN
            Push(acc, 25, "Rain likely in next few hours",
                 "Plan route to avoid bad weather")
        ELSE acc
    ELSE acc

\* DetermineSuitability with `>` in place of `>=`
DetermineSuitabilityStrict(score) ==
    IF score > 80 THEN "excellent"
    ELSE IF score > 60 THEN "good"
    ELSE IF score > 40 THEN "fair"
    ELSE IF score > 20 THEN "poor"
    ELSE "dangerous"

DetermineSuitability(score) ==
    IF score >= 80 THEN "excellent"
    ELSE IF score >= 60 THEN "good"
    ELSE IF score >= 40 THEN "fair"
    ELSE IF score >= 20 THEN "poor"
    ELSE "dangerous"

\* the score returned as it is, without Math.max(0, score)
ClampScoreNone(score) == score

\* Math.abs(score) in place of Math.max(0, score)
ClampScoreAbs(score) == IF score < 0 THEN 0 - score ELSE score

\* Math.max(0, score)
ClampScore(score) == IF score > 0 THEN score ELSE 0

calculateRidingConditions(w) ==
    LET start == [score |-> 100, alerts |-> <<>>, recommendations |-> <<>>]
        acc == ForecastCheck(
                 WeatherCodeFactors(
                   PrecipitationFactors(
                     WindFactors(
                       TemperatureFactors(start, w), w), w), w), w)
    IN [score |-> ClampScore(acc.score),
        suitability |-> DetermineSuitability(acc.score),
        alerts |-> acc.alerts,
        recommendations |-> acc.recommendations]

---------------------------------------------------------------------------
(* The state machine *)

Init ==
    /\ weather \in Readings
    /\ ridingConditions = <<>>
    /\ data = <<>>
    /\ args = <<>>
    /\ returned = <<>>
    /\ HomeInit /\ MapInit /\ TripInit

\* const ridingConditions = calculateRidingConditions(weatherInfo)
Calculate ==
    /\ ridingConditions = <<>>
    /\ ridingConditions' = <<calculateRidingConditions(weather)>>
    /\ UNCHANGED <<weather, data, args, returned, homeVars, mapVars, tripVars>>

Next == Calculate

Spec == Init /\ [][Next]_vars

---------------------------------------------------------------------------
(* loadData: the handler of the forecast response *)

\* the parsed JSON of the forecast provider; a missing or null member is <<>>
Response(cur, hourly) == [current |-> cur, hourly |-> hourly]

Current(t, w, p, c) ==
    <<[temperature_2m |-> t, wind_speed_10m |-> w,
       precipitation |-> p, weather_code |-> c]>>

Hourly(pp) == <<[precipitation_probability |-> pp]>>

Responses ==
    {Response(cur, h) :
        cur \in {<<>>} \cup
                {Current(t, w, p, c) :
                    t \in Opt({0, 27}), w \in Opt({0, 20}),
                    p \in Opt({0, 8}), c \in Opt({0, 96})},
        h \in {<<>>} \cup
              {Hourly(pp) : pp \in Opt({<<>>, <<10>>, <<75, 10>>, <<0, 75>>,
                                          <<70>>, <<71>>, <<81, 10>>})}}

\* weatherInfo with `?? 0` in place of `?? undefined` for the wind speed
weatherInfoZeroWind(d) ==
    LET cur(f) == IF d.current = <<>> THEN <<>> ELSE d.current[1][f]
        pp == IF d.hourly = <<>> THEN <<>>
              ELSE d.hourly[1].precipitation_probability
        currentPrecipitationProbability ==
            IF pp = <<>> \/ pp[1] = <<>> THEN <<>> ELSE <<pp[1][1]>>
    IN WeatherInfo(cur("temperature_2m"),
                   <<Coalesce(cur("wind_speed_10m"), 0)>>,
                   cur("precipitation"),
                   currentPrecipitationProbability,
                   cur("weather_code"),
                   IF d.hourly = <<>> THEN <<>>
                   ELSE Forecast(Coalesce(pp, <<>>)))

\* weatherInfo with precipitation_probability?.[1] in place of ?.[0]
weatherInfoSecondHour(d) ==
    LET cur(f) == IF d.current = <<>> THEN <<>> ELSE d.current[1][f]
        pp == IF d.hourly = <<>> THEN <<>>
              ELSE d.hourly[1].precipitation_probability
        currentPrecipitationProbability ==
            IF pp = <<>> \/ Len(pp[1]) < 2 THEN <<>> ELSE <<pp[1][2]>>
    IN WeatherInfo(cur("temperature_2m"),
                   cur("wind_speed_10m"),
                   cur("precipitation"),
                   currentPrecipitationProbability,
                   cur("weather_code"),
                   IF d.hourly = <<>> THEN <<>>
                   ELSE Forecast(Coalesce(pp, <<>>)))

\* const weatherInfo: WeatherInfo = { ... }
weatherInfo(d) ==
    LET \* data.current?.f ?? undefined
        cur(f) == IF d.current = <<>> THEN <<>> ELSE d.current[1][f]
        \* data.hourly?.precipitation_probability
        pp == IF d.hourly = <<>> THEN <<>>
              ELSE d.hourly[1].precipitation_probability
        \* data.hourly?.precipitation_probability?.[0] ?? undefined
        currentPrecipitationProbability ==
            IF pp = <<>> \/ pp[1] = <<>> THEN <<>> ELSE <<pp[1][1]>>
    IN WeatherInfo(cur("temperature_2m"),
                   cur("wind_speed_10m"),
                   cur("precipitation"),
                   currentPrecipitationProbability,
                   cur("weather_code"),
                   \* data.hourly ? {precipitationProbability: ... || []} : undefined
                   IF d.hourly = <<>> THEN <<>>
                   ELSE Forecast(Coalesce(pp, <<>>)))

InitWeatherResponse ==
    /\ data \in {<<d>> : d \in Responses}
    /\ weather = WeatherInfo(<<>>, <<>>, <<>>, <<>>, <<>>, <<>>)
    /\ ridingConditions = <<>>
    /\ args = <<>>
    /\ returned = <<>>
    /\ HomeInit /\ MapInit /\ TripInit

\* .then((data) => { ...; setRidingConditions(ridingConditions); return weatherInfo })
ThenData ==
    /\ data # <<>>
    /\ ridingConditions = <<>>
    /\ weather' = weatherInfo(data[1])
    /\ ridingConditions' = <<calculateRidingConditions(weather')>>
    /\ UNCHANGED <<data, args, returned, homeVars, mapVars, tripVars>>

NextWeatherResponse == ThenData

SpecWeatherResponse == InitWeatherResponse /\ [][NextWeatherResponse]_vars

---------------------------------------------------------------------------
(* loadData: the invocations of the home screen and their three fetches *)

\* loadData invocations that are enumerated
MaxRuns == 2

\* a promise: <<>> while pending, <<result>> once settled
Pending == <<>>
Settled(v) == <<v>>

\* the positions Location.getCurrentPositionAsync resolves to
Positions == {[latitude |-> 60, longitude |-> 10],
              [latitude |-> 0, longitude |-> -120],
              [latitude |-> -60, longitude |-> 179]}

\* the GeoAddress values the address fetch resolves to
Addresses == {[displayName |-> "Storgata 1, Oslo"]}

\* the place lists the places fetch resolves to, sorted and cut to 12
PlaceLists == {<<>>, <<[id |-> "p1", name |-> "MC Verksted"]>>}

\* the parsed responses of the forecast provider
ForecastResponses ==
    {Response(Current(<<27>>, <<>>, <<>>, <<>>), <<>>),
     Response(Current(<<>>, <<20>>, <<>>, <<>>), Hourly(<<<<75, 10>>>>))}

\* everything but the home screen's state
notHome == <<data, args, returned, mapVars, tripVars>>

\* loadData up to its first await: setLoading(true); setError(null);
\* Location.requestForegroundPermissionsAsync()
LoadData ==
    /\ Len(runs) < MaxRuns
    /\ loading' = TRUE
    /\ error' = <<>>
    /\ runs' = Append(runs, [pc |-> "permission",
                             addressPromise |-> Pending,
                             weatherPromise |-> Pending,
                             placesPromise |-> Pending])
    /\ UNCHANGED <<weather, ridingConditions, address, places, location,
                   lastUpdated, notHome>>

\* permission.status !== "granted": setError(...); return; finally setLoading(false)
PermissionDenied(r) ==
    /\ runs[r].pc = "permission"
    /\ error' = <<"Location permission is required to show nearby info.">>
    /\ loading' = FALSE
    /\ runs' = [runs EXCEPT ![r].pc = "done"]
    /\ UNCHANGED <<weather, ridingConditions, address, places, location,
                   lastUpdated, notHome>>

\* permission granted: Location.getCurrentPositionAsync(...)
PermissionGranted(r) ==
    /\ runs[r].pc = "permission"
    /\ runs' = [runs EXCEPT ![r].pc = "position"]
    /\ UNCHANGED <<weather, ridingConditions, loading, error, address, places,
                   location, lastUpdated, notHome>>

\* the permission or the position request rejects:
\* catch (err) { setError(...) } finally { setLoading(false) }
Caught(r) ==
    /\ runs[r].pc \in {"permission", "position"}
    /\ error' = <<"Unable to load location data. Please try again.">>
    /\ loading' = FALSE
    /\ runs' = [runs EXCEPT ![r].pc = "done"]
    /\ UNCHANGED <<weather, ridingConditions, address, places, location,
                   lastUpdated, notHome>>

\* setLocation(position); the three fetches are started; await Promise.all([...])
PositionResolved(r) ==
    /\ runs[r].pc = "position"
    /\ \E position \in Positions : location' = <<position>>
    /\ runs' = [runs EXCEPT ![r].pc = "fetching"]
    /\ UNCHANGED <<weather, ridingConditions, loading, error, address, places,
                   lastUpdated, notHome>>

\* addressPromise settles: a GeoAddress, or null (status not OK, or the catch)
AddressSettled(r) ==
    /\ runs[r].pc = "fetching"
    /\ runs[r].addressPromise = Pending
    /\ \E a \in Opt(Addresses) :
         runs' = [runs EXCEPT ![r].addressPromise = Settled(a)]
    /\ UNCHANGED <<weather, ridingConditions, loading, error, address, places,
                   location, lastUpdated, notHome>>

\* .then((data) => { ...; const ridingConditions = calculateRidingConditions(weatherInfo);
\*                   setRidingConditions(ridingConditions); return weatherInfo })
WeatherThen(r) ==
    /\ runs[r].pc = "fetching"
    /\ runs[r].weatherPromise = Pending
    /\ \E d \in ForecastResponses :
         /\ ridingConditions' = <<calculateRidingConditions(weatherInfo(d))>>
         /\ runs' = [runs EXCEPT ![r].weatherPromise = Settled(<<weatherInfo(d)>>)]
    /\ UNCHANGED <<weather, loading, error, address, places, location,
                   lastUpdated, notHome>>

\* WeatherCatch with .catch(() => { setError(...); return null })
WeatherCatchSetsError(r) ==
    /\ runs[r].pc = "fetching"
    /\ runs[r].weatherPromise = Pending
    /\ runs' = [runs EXCEPT ![r].weatherPromise = Settled(<<>>)]
    /\ error' = <<"Unable to load location data. Please try again.">>
    /\ UNCHANGED <<weather, ridingConditions, loading, address, places,
                   location, lastUpdated, notHome>>

\* the fetch or response.json() rejects: .catch(() => null)
WeatherCatch(r) ==
    /\ runs[r].pc = "fetching"
    /\ runs[r].weatherPromise = Pending
    /\ runs' = [runs EXCEPT ![r].weatherPromise = Settled(<<>>)]
    /\ UNCHANGED <<weather, ridingConditions, loading, error, address, places,
                   location, lastUpdated, notHome>>

\* placesPromise settles: the sorted places, or [] from .catch(() => [])
PlacesSettled(r) ==
    /\ runs[r].pc = "fetching"
    /\ runs[r].placesPromise = Pending
    /\ \E p \in PlaceLists :
         runs' = [runs EXCEPT ![r].placesPromise = Settled(p)]
    /\ UNCHANGED <<weather, ridingConditions, loading, error, address, places,
                   location, lastUpdated, notHome>>

\* Promise.all resolves: setAddress(addressResult); setWeather(weatherResult);
\* setPlaces(placesResult ?? []); setLastUpdated(new Date()); finally setLoading(false)
Joined(r) ==
    /\ runs[r].pc = "fetching"
    /\ runs[r].addressPromise # Pending
    /\ runs[r].weatherPromise # Pending
    /\ runs[r].placesPromise # Pending
    /\ address' = runs[r].addressPromise[1]
    /\ weather' = runs[r].weatherPromise[1]
    /\ places' = runs[r].placesPromise[1]
    /\ lastUpdated' = <<"Date">>
    /\ loading' = FALSE
    /\ runs' = [runs EXCEPT ![r].pc = "done"]
    /\ UNCHANGED <<ridingConditions, error, location, notHome>>

InitLoadData ==
    /\ weather = <<>>
    /\ ridingConditions = <<>>
    /\ data = <<>>
    /\ args = <<>>
    /\ returned = <<>>
    /\ HomeInit /\ MapInit /\ TripInit

NextLoadData ==
    \/ LoadData
    \/ \E r \in DOMAIN runs : PermissionDenied(r)
    \/ \E r \in DOMAIN runs : PermissionGranted(r)
    \/ \E r \in DOMAIN runs : Caught(r)
    \/ \E r \in DOMAIN runs : PositionResolved(r)
    \/ \E r \in DOMAIN runs : AddressSettled(r)
    \/ \E r \in DOMAIN runs : WeatherThen(r)
    \/ \E r \in DOMAIN runs : WeatherCatch(r)
    \/ \E r \in DOMAIN runs : PlacesSettled(r)
    \/ \E r \in DOMAIN runs : Joined(r)

SpecLoadData == InitLoadData /\ [][NextLoadData]_vars

---------------------------------------------------------------------------
(* formatWeatherCode and weatherEmoji, as called by the weather card.      *)
(* The home screen and the forecast screen carry their own copies.  A      *)
(* symbol is named by what it shows: "question" is the question-mark       *)
(* emoji, "thermometer" the thermometer emoji.                             *)

\* largest weather code that is enumerated (codes run from -1)
MaxCode == 100

\* formatWeatherCode with `?? ""` in place of `?? "Unknown"`
formatWeatherCodeBlank(code) ==
    IF code = <<>> THEN ""
    ELSE LET c == code[1] IN
         CASE c = 0 -> "Clear" [] c = 1 -> "Mostly clear"
           [] c = 2 -> "Partly cloudy" [] c = 3 -> "Overcast"
           [] c = 45 -> "Fog" [] c = 48 -> "Depositing rime fog"
           [] c = 51 -> "Light drizzle" [] c = 53 -> "Drizzle"
           [] c = 55 -> "Heavy drizzle"
           [] c = 61 -> "Light rain" [] c = 63 -> "Rain" [] c = 65 -> "Heavy rain"
           [] c = 71 -> "Light snow" [] c = 73 -> "Snow" [] c = 75 -> "Heavy snow"
           [] c = 80 -> "Rain showers" [] c = 81 -> "Heavy rain showers"
           [] c = 82 -> "Violent rain showers"
           [] c = 95 -> "Thunderstorm" [] c = 96 -> "Thunderstorm w/ hail"
           [] c = 99 -> "Thunderstorm w/ heavy hail"
           [] OTHER -> ""

\* home screen: mapping[code] ?? "Unknown", and "" for undefined
formatWeatherCode(code) ==
    IF code = <<>> THEN ""
    ELSE LET c == code[1] IN
         CASE c = 0 -> "Clear" [] c = 1 -> "Mostly clear"
           [] c = 2 -> "Partly cloudy" [] c = 3 -> "Overcast"
           [] c = 45 -> "Fog" [] c = 48 -> "Depositing rime fog"
           [] c = 51 -> "Light drizzle" [] c = 53 -> "Drizzle"
           [] c = 55 -> "Heavy drizzle"
           [] c = 61 -> "Light rain" [] c = 63 -> "Rain" [] c = 65 -> "Heavy rain"
           [] c = 71 -> "Light snow" [] c = 73 -> "Snow" [] c = 75 -> "Heavy snow"
           [] c = 80 -> "Rain showers" [] c = 81 -> "Heavy rain showers"
           [] c = 82 -> "Violent rain showers"
           [] c = 95 -> "Thunderstorm" [] c = 96 -> "Thunderstorm w/ hail"
           [] c = 99 -> "Thunderstorm w/ heavy hail"
           [] OTHER -> "Unknown"

\* home screen
weatherEmoji(code) ==
    IF code = <<>> THEN "question"
    ELSE LET c == code[1] IN
         IF c = 0 THEN "sun"
         ELSE IF c = 1 \/ c = 2 THEN "sun behind cloud"
         ELSE IF c = 3 THEN "cloud"
         ELSE IF c = 45 \/ c = 48 THEN "fog"
         ELSE IF c \in {51, 53, 55} THEN "sun behind rain cloud"
         ELSE IF c \in {61, 63, 65, 80, 81, 82} THEN "rain cloud"
         ELSE IF c \in {71, 73, 75} THEN "snowflake"
         ELSE IF c \in {95, 96, 99} THEN "thunder cloud"
         ELSE "thermometer"

\* forecast screen: mapping[code] || "Unknown", and "Unknown" for undefined
formatWeatherCode_006(code) ==
    IF code = <<>> THEN "Unknown"
    ELSE LET c == code[1] IN
         CASE c = 0 -> "Clear" [] c = 1 -> "Mostly clear"
           [] c = 2 -> "Partly cloudy" [] c = 3 -> "Overcast"
           [] c = 45 -> "Fog" [] c = 48 -> "Depositing rime fog"
           [] c = 51 -> "Light drizzle" [] c = 53 -> "Drizzle"
           [] c = 55 -> "Heavy drizzle"
           [] c = 56 -> "Freezing drizzle" [] c = 57 -> "Heavy freezing drizzle"
           [] c = 61 -> "Light rain" [] c = 63 -> "Rain" [] c = 65 -> "Heavy rain"
           [] c = 66 -> "Freezing rain" [] c = 67 -> "Heavy freezing rain"
           [] c = 71 -> "Light snow" [] c = 73 -> "Snow" [] c = 75 -> "Heavy snow"
           [] c = 77 -> "Snow grains"
           [] c = 80 -> "Light rain showers" [] c = 81 -> "Rain showers"
           [] c = 82 -> "Heavy rain showers"
           [] c = 85 -> "Light snow showers" [] c = 86 -> "Heavy snow showers"
           [] c = 95 -> "Thunderstorm" [] c = 96 -> "Thunderstorm + hail"
           [] c = 99 -> "Thunderstorm + heavy hail"
           [] OTHER -> "Unknown"

\* forecast screen
weatherEmoji_006(code) ==
    IF code = <<>> THEN "question"
    ELSE LET c == code[1] IN
         IF c \in {0, 1} THEN "sun"
         ELSE IF c = 2 THEN "sun behind cloud"
         ELSE IF c = 3 THEN "cloud"
         ELSE IF c \in {45, 48} THEN "fog"
         ELSE IF c \in {51, 53, 55, 56, 57} THEN "sun behind rain cloud"
         ELSE IF c \in {61, 63, 65, 66, 67, 80, 81, 82} THEN "rain cloud"
         ELSE IF c \in {71, 73, 75, 77, 85, 86} THEN "snowflake"
         ELSE IF c \in {95, 96, 99} THEN "thunder cloud"
         ELSE "thermometer"

Screens == {"home", "forecast"}

InitWeatherCard ==
    /\ args \in {[screen |-> k, code |-> c] : k \in Screens, c \in Opt(-1..MaxCode)}
    /\ returned = <<>>
    /\ weather = WeatherInfo(<<>>, <<>>, <<>>, <<>>, <<>>, <<>>)
    /\ ridingConditions = <<>>
    /\ data = <<>>
    /\ HomeInit /\ MapInit /\ TripInit

\* {weatherEmoji(weather.weatherCode)} ... {formatWeatherCode(weather.weatherCode)}
RenderWeatherCard ==
    /\ returned = <<>>
    /\ returned' =
         IF args.screen = "home"
         THEN <<[label |-> formatWeatherCode(args.code),
                 symbol |-> weatherEmoji(args.code)]>>
         ELSE <<[label |-> formatWeatherCode_006(args.code),
                 symbol |-> weatherEmoji_006(args.code)]>>
    /\ UNCHANGED <<weather, ridingConditions, data, args, homeVars, mapVars, tripVars>>

NextWeatherCard == RenderWeatherCard

SpecWeatherCard == InitWeatherCard /\ [][NextWeatherCard]_vars

---------------------------------------------------------------------------
(* formatDistance.  A distance is a number of tenths of a metre, so that   *)
(* the fractional distances haversineMeters returns are among the inputs.  *)

\* Math.round of d10 tenths: the nearest integer, a half rounded up
MathRound(d10) == (d10 + 5) \div 10

\* (d10 tenths of a metre / 1000).toFixed(1): kilometres to one decimal
ToFixed1Km(d10) ==
    LET tenths == (d10 + 500) \div 1000
    IN ToString(tenths \div 10) \o "." \o ToString(tenths % 10)

formatDistance(distance) ==
    IF distance = <<>> THEN ""
    ELSE IF distance[1] < 10000 THEN ToString(MathRound(distance[1])) \o " m"
    ELSE ToFixed1Km(distance[1]) \o " km"

\* distances around 0 m, 1000 m, 1050 m and 10 km, in tenths of a metre
Distances == (0..25) \cup (9975..10025) \cup (10480..10520) \cup (99940..99960)

InitFormatDistance ==
    /\ args \in Opt(Distances)
    /\ returned = <<>>
    /\ weather = WeatherInfo(<<>>, <<>>, <<>>, <<>>, <<>>, <<>>)
    /\ ridingConditions = <<>>
    /\ data = <<>>
    /\ HomeInit /\ MapInit /\ TripInit

\* {formatDistance(place.distanceMeters)}
RenderDistance ==
    /\ returned = <<>>
    /\ returned' = <<formatDistance(args)>>
    /\ UNCHANGED <<weather, ridingConditions, data, args, homeVars, mapVars, tripVars>>

NextFormatDistance == RenderDistance

SpecFormatDistance == InitFormatDistance /\ [][NextFormatDistance]_vars

---------------------------------------------------------------------------
(* latLonToTile.  Longitudes are whole degrees; only x is computed, y      *)
(* needs Math.log, Math.tan and Math.cos.                                  *)

\* largest zoom level that is enumerated
MaxZoom == 3

latLonToTile(lat, lon, zoom) ==
    LET n == 2 ^ zoom
    IN [x |-> ((lon + 180) * n) \div 360]

InitLatLonToTile ==
    /\ args \in {[lat |-> lat, lon |-> lon, zoom |-> z] :
                    lat \in {-60, 0, 60}, lon \in -180..180, z \in 0..MaxZoom}
    /\ returned = <<>>
    /\ weather = WeatherInfo(<<>>, <<>>, <<>>, <<>>, <<>>, <<>>)
    /\ ridingConditions = <<>>
    /\ data = <<>>
    /\ HomeInit /\ MapInit /\ TripInit

\* const tile = latLonToTile(location.latitude, location.longitude, zoom)
CallLatLonToTile ==
    /\ returned = <<>>
    /\ returned' = <<latLonToTile(args.lat, args.lon, args.zoom)>>
    /\ UNCHANGED <<weather, ridingConditions, data, args, homeVars, mapVars, tripVars>>

NextLatLonToTile == CallLatLonToTile

SpecLatLonToTile == InitLatLonToTile /\ [][NextLatLonToTile]_vars

---------------------------------------------------------------------------
(* The map preview of the home screen: the provider list, the image's     *)
(* load and error handlers, retryMapPreview and the reset effect. The     *)
(* static preview is the one rendered (!useNativeMaps || isWeb).          *)

\* const tileZoom = 15
tileZoom == 15

\* the positions the preview is drawn for
MapPositions ==
    Positions \cup {[latitude |-> lat, longitude |-> lon] :
                       lat \in {0, 60}, lon \in {-180, 0, 180}}

\* the provider URLs of a location, by host and by what is interpolated
mapProviders ==
    IF location = <<>> THEN <<>>
    ELSE
      LET latitude == location[1].latitude
          longitude == location[1].longitude
          googleUrl == [host |-> "maps.googleapis.com",
                        latitude |-> latitude, longitude |-> longitude]
          tile == latLonToTile(latitude, longitude, tileZoom)
          osmProviders ==
              <<[host |-> "maps.wikimedia.org",
                 latitude |-> latitude, longitude |-> longitude],
                [host |-> "staticmap.openstreetmap.de",
                 latitude |-> latitude, longitude |-> longitude],
                [host |-> "tile.openstreetmap.org",
                 zoom |-> tileZoom, x |-> tile.x]>>
      IN (IF googleMapsStaticKey # <<>> THEN <<googleUrl>> ELSE <<>>)
           \o osmProviders

\* const mapUrl = mapProviders[mapProviderIndex]; <<>> when undefined
mapUrl ==
    IF mapProviderIndex + 1 \in DOMAIN mapProviders
    THEN <<mapProviders[mapProviderIndex + 1]>>
    ELSE <<>>

\* everything but the map preview's state
notMap == <<weather, ridingConditions, data, args, returned,
            loading, error, address, places, lastUpdated, runs, tripVars>>

\* useEffect(() => { if (mapUrl && ...) { setMapImageLoading(true);
\* setMapImageLoaded(false) } }, [mapUrl, ...]), run after a handler that
\* set the image flags to `loadingAfter` and `loaded`
MapUrlEffect(loadingAfter) ==
    IF mapUrl' # mapUrl /\ mapUrl' # <<>>
    THEN mapImageLoading' = TRUE /\ mapImageLoaded' = FALSE
    ELSE mapImageLoading' = loadingAfter /\ UNCHANGED mapImageLoaded

\* loadData's setLocation(position): mapProviders is recomputed, and
\* useEffect(() => { setMapError(false); setMapErrorMessage(null);
\* setMapProviderIndex(0) }, [mapProviders]) runs
SetLocation ==
    /\ \E position \in MapPositions : location' = <<position>>
    /\ mapError' = FALSE
    /\ mapErrorMessage' = <<>>
    /\ mapProviderIndex' = 0
    /\ UNCHANGED <<googleMapsStaticKey, notMap>>
    /\ MapUrlEffect(mapImageLoading)

\* the image is rendered: mapUrl && !mapError && mapImageSource
ImageRendered == mapUrl # <<>> /\ ~mapError

\* ExpoImage onLoad
OnLoad ==
    /\ ImageRendered
    /\ mapImageLoaded' = TRUE
    /\ mapImageLoading' = FALSE
    /\ mapErrorMessage' = <<>>
    /\ UNCHANGED <<location, googleMapsStaticKey, mapProviderIndex, mapError, notMap>>

\* OnError advancing by two: a provider is skipped
OnErrorSkips ==
    /\ ImageRendered
    /\ mapErrorMessage' = <<"Image failed to load">>
    /\ IF mapProviderIndex < Len(mapProviders) - 2
       THEN mapProviderIndex' = mapProviderIndex + 2 /\ UNCHANGED mapError
       ELSE mapError' = TRUE /\ UNCHANGED mapProviderIndex
    /\ UNCHANGED <<location, googleMapsStaticKey, notMap>>
    /\ MapUrlEffect(FALSE)

\* ExpoImage onError
OnError ==
    /\ ImageRendered
    /\ mapErrorMessage' = <<"Image failed to load">>
    /\ IF mapProviderIndex < Len(mapProviders) - 1
       THEN mapProviderIndex' = mapProviderIndex + 1 /\ UNCHANGED mapError
       ELSE mapError' = TRUE /\ UNCHANGED mapProviderIndex
    /\ UNCHANGED <<location, googleMapsStaticKey, notMap>>
    /\ MapUrlEffect(FALSE)

\* retryMapPreview with prev + 1 in place of (prev + 1) % mapProviders.length
retryMapPreviewNoWrap ==
    /\ mapUrl # <<>> /\ mapError
    /\ Len(mapProviders) # 0
    /\ mapError' = FALSE
    /\ mapProviderIndex' = mapProviderIndex + 1
    /\ UNCHANGED <<location, googleMapsStaticKey, mapErrorMessage, notMap>>
    /\ MapUrlEffect(mapImageLoading)

\* retryMapPreview, the onPress of "Try another provider" (rendered when
\* mapUrl && mapError)
retryMapPreview ==
    /\ mapUrl # <<>> /\ mapError
    /\ Len(mapProviders) # 0
    /\ mapError' = FALSE
    /\ mapProviderIndex' = (mapProviderIndex + 1) % Len(mapProviders)
    /\ UNCHANGED <<location, googleMapsStaticKey, mapErrorMessage, notMap>>
    /\ MapUrlEffect(mapImageLoading)

InitMapPreview ==
    /\ weather = <<>>
    /\ ridingConditions = <<>>
    /\ data = <<>>
    /\ args = <<>>
    /\ returned = <<>>
    /\ HomeInit /\ TripInit
    /\ googleMapsStaticKey \in Opt({"key"})
    /\ mapProviderIndex = 0
    /\ mapError = FALSE
    /\ mapErrorMessage = <<>>
    /\ mapImageLoading = FALSE
    /\ mapImageLoaded = FALSE

NextMapPreview ==
    \/ SetLocation
    \/ OnLoad
    \/ OnError
    \/ retryMapPreview

SpecMapPreview == InitMapPreview /\ [][NextMapPreview]_vars

---------------------------------------------------------------------------
(* haversineMeters, in exact arithmetic on coordinates whose half          *)
(* differences are multiples of 30 degrees.  A number is [p, q, e], the    *)
(* value (p + q * sqrt(3)) / 2^e; the sine and cosine of a multiple of 30  *)
(* degrees are such numbers.                                               *)

Num(p, q, e) == [p |-> p, q |-> q, e |-> e]

\* x * y
Mul(x, y) ==
    Num(x.p * y.p + 3 * x.q * y.q, x.p * y.q + x.q * y.p, x.e + y.e)

\* x + y
Add(x, y) ==
    LET e == IF x.e > y.e THEN x.e ELSE y.e
    IN Num(x.p * 2 ^ (e - x.e) + y.p * 2 ^ (e - y.e),
           x.q * 2 ^ (e - x.e) + y.q * 2 ^ (e - y.e), e)

\* Math.sin of `deg` degrees, deg a multiple of 30
MathSin(deg) ==
    LET k == (deg \div 30) % 12 IN
    CASE k = 0 \/ k = 6 -> Num(0, 0, 1)
      [] k = 1 \/ k = 5 -> Num(1, 0, 1)
      [] k = 2 \/ k = 4 -> Num(0, 1, 1)
      [] k = 3 -> Num(2, 0, 1)
      [] k = 7 \/ k = 11 -> Num(-1, 0, 1)
      [] k = 8 \/ k = 10 -> Num(0, -1, 1)
      [] k = 9 -> Num(-2, 0, 1)

\* Math.cos of `deg` degrees
MathCos(deg) == MathSin(deg + 90)

\* R * 2 * Math.atan2(Math.sqrt(a), Math.sqrt(1 - a)) to the metre, R = 6371000,
\* for a = n/16
ArcMeters(a) ==
    LET n == (a.p * 16) \div (2 ^ a.e)
        table == <<0, 3219652, 4604540, 5706280, 6671696, 7558552, 8397717,
                   9209080, 10007543, 10806007, 11617369, 12456535, 13343391,
                   14308806, 15410547, 16795435, 20015087>>
    IN table[n + 1]

\* haversineMeters with cos(lat1) * cos(lat1) in place of cos(lat1) * cos(lat2)
haversineMetersSameLat(lat1, lon1, lat2, lon2) ==
    LET dLat == lat2 - lat1
        dLon == lon2 - lon1
        a == Add(Mul(MathSin(dLat \div 2), MathSin(dLat \div 2)),
                 Mul(Mul(Mul(MathCos(lat1), MathCos(lat1)),
                         MathSin(dLon \div 2)),
                     MathSin(dLon \div 2)))
    IN ArcMeters(a)

haversineMeters(lat1, lon1, lat2, lon2) ==
    LET dLat == lat2 - lat1
        dLon == lon2 - lon1
        a == Add(Mul(MathSin(dLat \div 2), MathSin(dLat \div 2)),
                 Mul(Mul(Mul(MathCos(lat1), MathCos(lat2)),
                         MathSin(dLon \div 2)),
                     MathSin(dLon \div 2)))
    IN ArcMeters(a)

Latitudes == {-60, 0, 60}
Longitudes == {-180, -120, -60, 0, 60, 120, 180}

InitHaversine ==
    /\ args \in {[lat1 |-> a, lon1 |-> b, lat2 |-> c, lon2 |-> d] :
                    a \in Latitudes, b \in Longitudes,
                    c \in Latitudes, d \in Longitudes}
    /\ returned = <<>>
    /\ weather = WeatherInfo(<<>>, <<>>, <<>>, <<>>, <<>>, <<>>)
    /\ ridingConditions = <<>>
    /\ data = <<>>
    /\ HomeInit /\ MapInit /\ TripInit

\* distanceMeters: haversineMeters(latitude, longitude, lat, lng)
CallHaversine ==
    /\ returned = <<>>
    /\ returned' = <<haversineMeters(args.lat1, args.lon1, args.lat2, args.lon2)>>
    /\ UNCHANGED <<weather, ridingConditions, data, args, homeVars, mapVars, tripVars>>

NextHaversine == CallHaversine

SpecHaversine == InitHaversine /\ [][NextHaversine]_vars

---------------------------------------------------------------------------
(* tripUtils: saveWaypoint, deleteWaypoint, saveRoute and deleteRoute on   *)
(* the key-value store.  A call is a record of where it stands (awaiting   *)
(* getItem, awaiting setItem, returned, thrown) and of its locals.         *)

\* calls that are enumerated
MaxCalls == 3

\* last value of the millisecond clock
MaxClock == 1

STORAGE_KEY_WAYPOINTS == "saved_waypoints"
STORAGE_KEY_ROUTES == "trip_routes"

\* the waypoints and routes handed to saveWaypoint and saveRoute (no id yet)
NewWaypoints == {[name |-> "Cafe"], [name |-> "Fuel"]}
NewRoutes == {[name |-> "Coast"]}

\* the ids handed to deleteWaypoint and deleteRoute
Ids == {ToString(t) : t \in 0..MaxClock}

\* JSON.stringify of a list of waypoints or routes: the text, held as the
\* list of its objects' members
JSONstringify(list) == [text |-> list]

\* JSON.parse
JSONparse(string) == string.text

\* the storage key a call works on
KeyOf(op) ==
    IF op \in {"saveWaypoint", "deleteWaypoint"}
    THEN STORAGE_KEY_WAYPOINTS ELSE STORAGE_KEY_ROUTES

\* list.filter(w => w.id !== id)
FilterOut(list, id) ==
    LET Test(w) == w.id # id IN SelectSeq(list, Test)

\* everything but the trip store's state
notTrip == <<weather, ridingConditions, data, args, returned, homeVars, mapVars>>

\* a call up to its first await: storage.getItem(key)
NewCall(op, arg) ==
    [op |-> op, arg |-> arg, pc |-> "getItem", list |-> <<>>, result |-> <<>>]

saveWaypoint ==
    /\ Len(calls) < MaxCalls
    /\ \E waypoint \in NewWaypoints :
         calls' = Append(calls, NewCall("saveWaypoint", waypoint))
    /\ UNCHANGED <<storage, now, notTrip>>

deleteWaypoint ==
    /\ Len(calls) < MaxCalls
    /\ \E waypointId \in Ids :
         calls' = Append(calls, NewCall("deleteWaypoint", waypointId))
    /\ UNCHANGED <<storage, now, notTrip>>

saveRoute ==
    /\ Len(calls) < MaxCalls
    /\ \E route \in NewRoutes :
         calls' = Append(calls, NewCall("saveRoute", route))
    /\ UNCHANGED <<storage, now, notTrip>>

deleteRoute ==
    /\ Len(calls) < MaxCalls
    /\ \E routeId \in Ids :
         calls' = Append(calls, NewCall("deleteRoute", routeId))
    /\ UNCHANGED <<storage, now, notTrip>>

\* getItem resolves: existingData ? JSON.parse(existingData) : []; then
\* push of the new object with id Date.now().toString(), or the filter;
\* storage.setItem(key, JSON.stringify(...)) is called
GetItemResolved(c) ==
    /\ calls[c].pc = "getItem"
    /\ LET existingData == storage[KeyOf(calls[c].op)]
           list == IF existingData # <<>> THEN JSONparse(existingData[1]) ELSE <<>>
           new == [id |-> ToString(now), name |-> calls[c].arg.name]
       IN IF calls[c].op \in {"saveWaypoint", "saveRoute"}
          THEN calls' = [calls EXCEPT ![c].pc = "setItem",
                                      ![c].list = Append(list, new),
                                      ![c].result = <<new>>]
          ELSE calls' = [calls EXCEPT ![c].pc = "setItem",
                                      ![c].list = FilterOut(list, calls[c].arg)]
    /\ UNCHANGED <<storage, now, notTrip>>

\* setItem has written and resolves: the call returns (newWaypoint, newRoute)
SetItemResolved(c) ==
    /\ calls[c].pc = "setItem"
    /\ storage' = [storage EXCEPT ![KeyOf(calls[c].op)] =
                                     <<JSONstringify(calls[c].list)>>]
    /\ calls' = [calls EXCEPT ![c].pc = "returned"]
    /\ UNCHANGED <<now, notTrip>>

\* AsyncStorage rejects: catch (error) { console.error(...); throw error }
Throws(c) ==
    /\ calls[c].pc \in {"getItem", "setItem"}
    /\ calls' = [calls EXCEPT ![c].pc = "thrown"]
    /\ UNCHANGED <<storage, now, notTrip>>

\* a millisecond passes
Tick ==
    /\ now < MaxClock
    /\ now' = now + 1
    /\ UNCHANGED <<storage, calls, notTrip>>

InitTrips ==
    /\ weather = <<>>
    /\ ridingConditions = <<>>
    /\ data = <<>>
    /\ args = <<>>
    /\ returned = <<>>
    /\ HomeInit /\ MapInit /\ TripInit

NextTrips ==
    \/ saveWaypoint
    \/ deleteWaypoint
    \/ saveRoute
    \/ deleteRoute
    \/ \E c \in DOMAIN calls : GetItemResolved(c)
    \/ \E c \in DOMAIN calls : SetItemResolved(c)
    \/ \E c \in DOMAIN calls : Throws(c)
    \/ Tick

SpecTrips == InitTrips /\ [][NextTrips]_vars

---------------------------------------------------------------------------
(* Vocabulary of the properties *)

Done == ridingConditions # <<>>

\* the RidingConditions returned by the call
Result == ridingConditions[1]

ValueOr(x, d) == IF Len(x) = 0 THEN d ELSE Head(x)

Max0(n) == IF n < 0 THEN 0 ELSE n

Range(s) == {s[i] : i \in DOMAIN s}

LookaheadAlert == "Rain likely in next few hours"

\* the factor an alert belongs to: 1 temperature, 2 wind, 3 precipitation,
\* 4 weather code, 5 forecast lookahead
FactorOf(a) ==
    CASE a \in {"Very cold - risk of frostbite", "Cold weather",
                "Very hot - risk of heat exhaustion", "Hot weather"} -> 1
      [] a \in {"Very windy - dangerous riding conditions", "Strong winds",
                "Moderate winds"} -> 2
      [] a \in {"Heavy rain - extremely dangerous", "Rain expected",
                "Possible rain"} -> 3
      [] a \in {"Thunderstorm - extremely dangerous", "Snow/ice conditions",
                "Foggy conditions"} -> 4
      [] a = LookaheadAlert -> 5
      [] OTHER -> 0

\* the factor a recommendation belongs to
RecommendationFactorOf(r) ==
    CASE r \in {"Wear thermal gear, consider heated grips", "Wear warm layers",
                "Stay hydrated, wear light clothing", "Drink water regularly"} -> 1
      [] r \in {"Avoid riding if possible, use extreme caution",
                "Lean into wind, reduce speed", "Be cautious on exposed roads"} -> 2
      [] r \in {"Do not ride, seek shelter",
                "Wear waterproof gear, reduce speed, increase following distance",
                "Check weather frequently, be prepared for rain"} -> 3
      [] r \in {"Do not ride, seek shelter immediately",
                "Do not ride, roads may be icy",
                "Use headlights, reduce speed, increase following distance"} -> 4
      [] r = "Plan route to avoid bad weather" -> 5
      [] OTHER -> 0

\* the deduction of the band an alert reports
DeductionOf(a) ==
    CASE a = "Very cold - risk of frostbite" -> 40
      [] a = "Cold weather" -> 20
      [] a = "Very hot - risk of heat exhaustion" -> 30
      [] a = "Hot weather" -> 15
      [] a = "Very windy - dangerous riding conditions" -> 50
      [] a = "Strong winds" -> 30
      [] a = "Moderate winds" -> 10
      [] a = "Heavy rain - extremely dangerous" -> 60
      [] a = "Rain expected" -> 40
      [] a = "Possible rain" -> 20
      [] a = "Thunderstorm - extremely dangerous" -> 70
      [] a = "Snow/ice conditions" -> 50
      [] a = "Foggy conditions" -> 15
      [] a = LookaheadAlert -> 25
      [] OTHER -> 0

RECURSIVE TotalDeduction(_)
TotalDeduction(alerts) ==
    IF alerts = <<>> THEN 0
    ELSE DeductionOf(Head(alerts)) + TotalDeduction(Tail(alerts))

\* the alerts of one factor, and those of all the other factors, in order
AlertsOfFactor(alerts, f) ==
    LET Test(a) == FactorOf(a) = f IN SelectSeq(alerts, Test)

AlertsOfOtherFactors(alerts, f) ==
    LET Test(a) == FactorOf(a) # f IN SelectSeq(alerts, Test)

\* a factor deducted `band.deduction` and reported `band.alerts`
FactorContributes(f, band) ==
    /\ AlertsOfFactor(Result.alerts, f) = band.alerts
    /\ Result.score =
         Max0(100 - (band.deduction
                     + TotalDeduction(AlertsOfOtherFactors(Result.alerts, f))))

Band(d, a) == [deduction |-> d, alerts |-> <<a>>]
NoBand == [deduction |-> 0, alerts |-> <<>>]

\* some entry at hour offset 0..5 of the series exceeds 70
RainInNextHours(s) == \E i \in DOMAIN s : i <= 6 /\ s[i] > 70

---------------------------------------------------------------------------
(* C1: for every reading, the returned score lies in 0..100. *)
ScoreBounds == Done => Result.score \in 0..100

\* a reading whose deductions exceed 100 has been scored
ScoreBoundsWitness ==
    Done /\ TotalDeduction(Result.alerts) > 100 /\ Result.score = 0

(* C2: the returned suitability is the band of the returned score         *)
(* (>= 80 excellent, 60..79 good, 40..59 fair, 20..39 poor, < 20          *)
(* dangerous), so against any other result a higher score never has a     *)
(* worse suitability.                                                     *)
SuitabilityBand(score) ==
    CASE score >= 80 -> "excellent"
      [] score >= 60 /\ score < 80 -> "good"
      [] score >= 40 /\ score < 60 -> "fair"
      [] score >= 20 /\ score < 40 -> "poor"
      [] score < 20 -> "dangerous"

SuitabilityRank(u) ==
    CASE u = "excellent" -> 4
      [] u = "good" -> 3
      [] u = "fair" -> 2
      [] u = "poor" -> 1
      [] u = "dangerous" -> 0

\* the scores the deductions can add up to before the clamp: 100 down to -145
RawScores == {100 - 5 * k : k \in 0..49}

SuitabilityMatchesScore ==
    Done =>
      /\ Result.suitability = SuitabilityBand(Result.score)
      /\ \A x \in RawScores :
           LET score2 == ClampScore(x)
               rank2 == SuitabilityRank(DetermineSuitability(x))
           IN /\ score2 > Result.score => rank2 >= SuitabilityRank(Result.suitability)
              /\ score2 < Result.score => rank2 <= SuitabilityRank(Result.suitability)

\* a score on the boundary 80 has been returned as excellent
SuitabilityMatchesScoreWitness ==
    Done /\ Result.score = 80 /\ Result.suitability = "excellent"

(* C3: the returned score is max(0, 100 - D), D the sum of the deductions *)
(* of the bands that fired; temperature 2, wind 20, precipitation 8,      *)
(* probability 90, code 96 gives score 0, dangerous, and exactly the four *)
(* alerts of temperature, wind, precipitation, weather code in that order.*)
ScenarioB == WeatherInfo(<<2>>, <<20>>, <<8>>, <<90>>, <<96>>, <<>>)

ScoreIsClampedSum ==
    Done =>
      /\ Result.score = Max0(100 - TotalDeduction(Result.alerts))
      /\ weather = ScenarioB =>
           /\ TotalDeduction(Result.alerts) = 220
           /\ Result.score = 0
           /\ Result.suitability = "dangerous"
           /\ Result.alerts = <<"Very cold - risk of frostbite",
                                "Very windy - dangerous riding conditions",
                                "Heavy rain - extremely dangerous",
                                "Thunderstorm - extremely dangerous">>

ScoreIsClampedSumWitness == Done /\ weather = ScenarioB

(* C4: temperature, wind, precipitation and weather code each contribute  *)
(* at most one alert, that of the most severe matching band; the          *)
(* lookahead's 25 comes on top of whatever they deducted; at most 5       *)
(* alerts, never two of one factor.                                       *)
RECURSIVE MostSevere(_)
MostSevere(bands) ==
    IF bands = <<>> THEN <<>>
    ELSE IF Head(bands)[1] THEN <<Head(bands)[2]>>
    ELSE MostSevere(Tail(bands))

OneBandPerFactor ==
    Done =>
      LET t == ValueOr(weather.temperatureC, 20)
          w == ValueOr(weather.windSpeed, 0)
          p == ValueOr(weather.precipitation, 0)
          q == ValueOr(weather.precipitationProbability, 0)
          c == ValueOr(weather.weatherCode, 0)
          four == SelectSeq(Result.alerts, LAMBDA a : FactorOf(a) \in 1..4)
          ahead == IF LookaheadAlert \in Range(Result.alerts) THEN 25 ELSE 0
      IN
      /\ Len(Result.alerts) <= 5
      /\ \A f \in 1..5 : Len(AlertsOfFactor(Result.alerts, f)) <= 1
      /\ \A i \in DOMAIN Result.alerts : FactorOf(Result.alerts[i]) \in 1..5
      /\ AlertsOfFactor(Result.alerts, 1) =
           MostSevere(<< <<t < 5, "Very cold - risk of frostbite">>,
                         <<t < 10, "Cold weather">>,
                         <<t > 30, "Very hot - risk of heat exhaustion">>,
                         <<t > 25, "Hot weather">> >>)
      /\ AlertsOfFactor(Result.alerts, 2) =
           MostSevere(<< <<w > 15, "Very windy - dangerous riding conditions">>,
                         <<w > 10, "Strong winds">>,
                         <<w > 5, "Moderate winds">> >>)
      /\ AlertsOfFactor(Result.alerts, 3) =
           MostSevere(<< <<p > 5 \/ q > 80, "Heavy rain - extremely dangerous">>,
                         <<p > 1 \/ q > 60, "Rain expected">>,
                         <<q > 30, "Possible rain">> >>)
      /\ AlertsOfFactor(Result.alerts, 4) =
           MostSevere(<< <<c \in {95, 96, 99}, "Thunderstorm - extremely dangerous">>,
                         <<c \in {71, 73, 75, 77}, "Snow/ice conditions">>,
                         <<c \in {45, 48}, "Foggy conditions">> >>)
      /\ Result.score = Max0(100 - (TotalDeduction(four) + ahead))
      /\ (ahead = 25) <=>
           (weather.hourlyForecast # <<>>
            /\ RainInNextHours(weather.hourlyForecast[1].precipitationProbability))

\* all four factors and the lookahead have fired on one reading
OneBandPerFactorWitness == Done /\ Len(Result.alerts) = 5

(* C5: alerts, and likewise recommendations, appear in the order          *)
(* temperature, wind, precipitation, weather code, forecast lookahead.    *)
FactorOrder ==
    Done =>
      /\ \A i, j \in DOMAIN Result.alerts :
           i < j => FactorOf(Result.alerts[i]) <= FactorOf(Result.alerts[j])
      /\ \A i, j \in DOMAIN Result.recommendations :
           i < j => RecommendationFactorOf(Result.recommendations[i])
                      <= RecommendationFactorOf(Result.recommendations[j])
      /\ \A i \in DOMAIN Result.alerts : FactorOf(Result.alerts[i]) # 0
      /\ \A i \in DOMAIN Result.recommendations :
           RecommendationFactorOf(Result.recommendations[i]) # 0

\* wind, weather code and lookahead fired, temperature and precipitation did not
FactorOrderWitness ==
    /\ Done
    /\ Len(Result.alerts) = 3
    /\ FactorOf(Result.alerts[1]) = 2
    /\ FactorOf(Result.alerts[2]) = 4
    /\ FactorOf(Result.alerts[3]) = 5

(* C6: temperature t: t < 5 deducts 40 "Very cold - risk of frostbite";    *)
(* 5 <= t < 10 deducts 20 "Cold weather"; t > 30 deducts 30 "Very hot -   *)
(* risk of heat exhaustion"; 25 < t <= 30 deducts 15 "Hot weather";       *)
(* 10 <= t <= 25 deducts nothing and adds no alert.                       *)
TemperatureBand(t) ==
    CASE t < 5 -> Band(40, "Very cold - risk of frostbite")
      [] 5 <= t /\ t < 10 -> Band(20, "Cold weather")
      [] t > 30 -> Band(30, "Very hot - risk of heat exhaustion")
      [] 25 < t /\ t <= 30 -> Band(15, "Hot weather")
      [] 10 <= t /\ t <= 25 -> NoBand

TemperatureBands ==
    Done => FactorContributes(1, TemperatureBand(ValueOr(weather.temperatureC, 20)))

\* the boundary value 5 has been scored as cold, not very cold
TemperatureBandsWitness ==
    /\ Done
    /\ weather.temperatureC = <<5>>
    /\ Result.alerts = <<"Cold weather">>
    /\ Result.score = 80

(* C7: precipitation p and probability q: p > 5 or q > 80 deducts 60      *)
(* "Heavy rain - extremely dangerous"; otherwise p > 1 or q > 60 deducts  *)
(* 40 "Rain expected"; otherwise q > 30 deducts 20 "Possible rain";       *)
(* otherwise nothing. p <= 1 alone never deducts.                         *)
PrecipitationBand(p, q) ==
    IF p > 5 \/ q > 80 THEN Band(60, "Heavy rain - extremely dangerous")
    ELSE IF p > 1 \/ q > 60 THEN Band(40, "Rain expected")
    ELSE IF q > 30 THEN Band(20, "Possible rain")
    ELSE NoBand

PrecipitationBands ==
    Done =>
      LET p == ValueOr(weather.precipitation, 0)
          q == ValueOr(weather.precipitationProbability, 0)
      IN /\ FactorContributes(3, PrecipitationBand(p, q))
         /\ (p <= 1 /\ q <= 30) => AlertsOfFactor(Result.alerts, 3) = <<>>
         /\ p > 5 => "Heavy rain - extremely dangerous" \in Range(Result.alerts)
         /\ q > 80 => "Heavy rain - extremely dangerous" \in Range(Result.alerts)

\* measured precipitation alone (probability 0) has fired the heavy-rain band
PrecipitationBandsWitness ==
    /\ Done
    /\ weather.precipitation = <<8>>
    /\ weather.precipitationProbability = <<0>>
    /\ Result.alerts = <<"Heavy rain - extremely dangerous">>
    /\ Result.score = 40

(* C8: weather code: 95, 96, 99 deduct 70 "Thunderstorm - extremely       *)
(* dangerous"; 71, 73, 75, 77 deduct 50 "Snow/ice conditions"; 45, 48     *)
(* deduct 15 "Foggy conditions"; every other code deducts nothing and     *)
(* adds no alert.                                                         *)
WeatherCodeBand(c) ==
    CASE c = 95 \/ c = 96 \/ c = 99 -> Band(70, "Thunderstorm - extremely dangerous")
      [] c = 71 \/ c = 73 \/ c = 75 \/ c = 77 -> Band(50, "Snow/ice conditions")
      [] c = 45 \/ c = 48 -> Band(15, "Foggy conditions")
      [] OTHER -> NoBand

WeatherCodeBands ==
    Done => FactorContributes(4, WeatherCodeBand(ValueOr(weather.weatherCode, 0)))

\* a snow-shower code has been scored without deduction or alert
WeatherCodeBandsWitness ==
    /\ Done
    /\ weather.weatherCode = <<85>>
    /\ Result.alerts = <<>>
    /\ Result.score = 100

(* C9: wind w: w > 15 deducts 50 "Very windy - dangerous riding           *)
(* conditions"; 10 < w <= 15 deducts 30 "Strong winds"; 5 < w <= 10       *)
(* deducts 10 "Moderate winds"; w <= 5 deducts nothing, no alert.         *)
WindBand(w) ==
    CASE w > 15 -> Band(50, "Very windy - dangerous riding conditions")
      [] 10 < w /\ w <= 15 -> Band(30, "Strong winds")
      [] 5 < w /\ w <= 10 -> Band(10, "Moderate winds")
      [] w <= 5 -> NoBand

WindBands ==
    Done => FactorContributes(2, WindBand(ValueOr(weather.windSpeed, 0)))

\* the boundary value 15 has been scored as strong, not very windy
WindBandsWitness ==
    /\ Done
    /\ weather.windSpeed = <<15>>
    /\ Result.alerts = <<"Strong winds">>
    /\ Result.score = 70

(* C10: with an hourly forecast, 25 is deducted with "Rain likely in next *)
(* few hours" / "Plan route to avoid bad weather" iff some probability at *)
(* hour offset 0..5 exceeds 70; entries from offset 6 on never change the *)
(* result, a shorter (or empty) series is judged on the entries it has,   *)
(* and without a forecast the step does nothing.                          *)
LookaheadBand(h) ==
    IF h # <<>> /\ RainInNextHours(h[1].precipitationProbability)
    THEN Band(25, LookaheadAlert)
    ELSE NoBand

FirstSixHours(w) ==
    IF w.hourlyForecast = <<>> THEN w
    ELSE LET s == w.hourlyForecast[1].precipitationProbability IN
         [w EXCEPT !.hourlyForecast =
             Forecast([i \in 1..(IF Len(s) < 6 THEN Len(s) ELSE 6) |-> s[i]])]

ForecastLookahead ==
    Done =>
      LET band == LookaheadBand(weather.hourlyForecast) IN
      /\ FactorContributes(5, band)
      /\ AlertsOfFactor(Result.alerts, 5) = <<LookaheadAlert>> <=>
           /\ Result.recommendations # <<>>
           /\ Result.recommendations[Len(Result.recommendations)]
                = "Plan route to avoid bad weather"
      /\ weather.hourlyForecast = <<>> =>
           Result = calculateRidingConditions(
                      [weather EXCEPT !.hourlyForecast = Forecast(<<>>)])
      /\ Result = calculateRidingConditions(FirstSixHours(weather))

\* a series whose only entry above 70 is at hour offset 6 has been scored
\* without the lookahead deduction
ForecastLookaheadWitness ==
    /\ Done
    /\ weather.hourlyForecast # <<>>
    /\ LET s == weather.hourlyForecast[1].precipitationProbability IN
         /\ Len(s) = 7
         /\ s[7] > 70
         /\ \A i \in 1..6 : s[i] <= 70
    /\ LookaheadAlert \notin Range(Result.alerts)

(* C11: the scorer returns a result for every subset of absent fields,    *)
(* and that result is the one for the same reading with each absent field *)
(* replaced by its default: temperature 20, wind 0, precipitation 0,      *)
(* precipitation probability 0, weather code 0.                           *)
WithDefaults(w) ==
    [w EXCEPT !.temperatureC = <<ValueOr(w.temperatureC, 20)>>,
              !.windSpeed = <<ValueOr(w.windSpeed, 0)>>,
              !.precipitation = <<ValueOr(w.precipitation, 0)>>,
              !.precipitationProbability = <<ValueOr(w.precipitationProbability, 0)>>,
              !.weatherCode = <<ValueOr(w.weatherCode, 0)>>]

AbsentIsDefault ==
    Done =>
      /\ Result = calculateRidingConditions(WithDefaults(weather))
      /\ Result.score \in Int
      /\ Result.suitability \in {"excellent", "good", "fair", "poor", "dangerous"}

\* a reading with all five current fields absent has been scored
AbsentIsDefaultWitness ==
    /\ Done
    /\ weather.temperatureC = <<>>
    /\ weather.windSpeed = <<>>
    /\ weather.precipitation = <<>>
    /\ weather.precipitationProbability = <<>>
    /\ weather.weatherCode = <<>>
    /\ Result.alerts = <<>>

(* C12: with every other field at its neutral default, the score never    *)
(* rises with the wind speed: w1 <= w2 gives score(w2) <= score(w1), in   *)
(* particular across the thresholds 5, 10 and 15.                         *)
OthersNeutral(w) ==
    /\ w.temperatureC \in {<<>>, <<20>>}
    /\ w.precipitation \in {<<>>, <<0>>}
    /\ w.precipitationProbability \in {<<>>, <<0>>}
    /\ w.weatherCode \in {<<>>, <<0>>}
    /\ w.hourlyForecast = <<>>

ScoreAtWind(w2) ==
    calculateRidingConditions([weather EXCEPT !.windSpeed = <<w2>>]).score

WindMonotone ==
    (Done /\ OthersNeutral(weather)) =>
      LET w1 == ValueOr(weather.windSpeed, 0) IN
      /\ \A w2 \in 0..25 :
           /\ w1 <= w2 => ScoreAtWind(w2) <= Result.score
           /\ w2 <= w1 => ScoreAtWind(w2) >= Result.score
      /\ \A th \in {5, 10, 15} : ScoreAtWind(th + 1) <= ScoreAtWind(th)

\* a moderate wind has been scored on an otherwise neutral reading
WindMonotoneWitness ==
    /\ Done
    /\ OthersNeutral(weather)
    /\ weather.windSpeed = <<10>>
    /\ Result.score = 90

(* C13: a reading on which no band fires (temperature in 10..25, wind <=  *)
(* 5, precipitation <= 1, probability <= 30, a code outside the           *)
(* thunderstorm, snow and fog sets, no lookahead entry above 70) gives    *)
(* score 100, excellent, no alerts and no recommendations.                *)
ScenarioA == WeatherInfo(<<20>>, <<0>>, <<0>>, <<0>>, <<0>>, <<>>)

NoBandFires(w) ==
    LET t == ValueOr(w.temperatureC, 20)
        c == ValueOr(w.weatherCode, 0)
    IN /\ 10 <= t /\ t <= 25
       /\ ValueOr(w.windSpeed, 0) <= 5
       /\ ValueOr(w.precipitation, 0) <= 1
       /\ ValueOr(w.precipitationProbability, 0) <= 30
       /\ c \notin {95, 96, 99, 71, 73, 75, 77, 45, 48}
       /\ \/ w.hourlyForecast = <<>>
          \/ ~RainInNextHours(w.hourlyForecast[1].precipitationProbability)

PerfectScore ==
    [score |-> 100, suitability |-> "excellent",
     alerts |-> <<>>, recommendations |-> <<>>]

NoBandPerfectScore ==
    Done =>
      /\ NoBandFires(weather) => Result = PerfectScore
      /\ weather = ScenarioA => Result = PerfectScore

NoBandPerfectScoreWitness == Done /\ weather = ScenarioA

(* C14: when exactly one band fires, the score is 100 minus its deduction *)
(* and the alerts and recommendations are that band's alone; temperature  *)
(* 27 alone gives 85, excellent, "Hot weather" / "Drink water regularly"; *)
(* the hourly probabilities 75,10,10,10,10,10 alone give 75, good, "Rain  *)
(* likely in next few hours".                                             *)
RecommendationOf(a) ==
    CASE a = "Very cold - risk of frostbite" -> "Wear thermal gear, consider heated grips"
      [] a = "Cold weather" -> "Wear warm layers"
      [] a = "Very hot - risk of heat exhaustion" -> "Stay hydrated, wear light clothing"
      [] a = "Hot weather" -> "Drink water regularly"
      [] a = "Very windy - dangerous riding conditions" ->
           "Avoid riding if possible, use extreme caution"
      [] a = "Strong winds" -> "Lean into wind, reduce speed"
      [] a = "Moderate winds" -> "Be cautious on exposed roads"
      [] a = "Heavy rain - extremely dangerous" -> "Do not ride, seek shelter"
      [] a = "Rain expected" ->
           "Wear waterproof gear, reduce speed, increase following distance"
      [] a = "Possible rain" -> "Check weather frequently, be prepared for rain"
      [] a = "Thunderstorm - extremely dangerous" -> "Do not ride, seek shelter immediately"
      [] a = "Snow/ice conditions" -> "Do not ride, roads may be icy"
      [] a = "Foggy conditions" ->
           "Use headlights, reduce speed, increase following distance"
      [] a = LookaheadAlert -> "Plan route to avoid bad weather"
      [] OTHER -> ""

BandsOf(w) ==
    <<TemperatureBand(ValueOr(w.temperatureC, 20)),
      WindBand(ValueOr(w.windSpeed, 0)),
      PrecipitationBand(ValueOr(w.precipitation, 0),
                        ValueOr(w.precipitationProbability, 0)),
      WeatherCodeBand(ValueOr(w.weatherCode, 0)),
      LookaheadBand(w.hourlyForecast)>>

ScenarioC == WeatherInfo(<<27>>, <<>>, <<>>, <<>>, <<>>, <<>>)
ScenarioD ==
    WeatherInfo(<<>>, <<>>, <<>>, <<>>, <<>>, Forecast(<<75, 10, 10, 10, 10, 10>>))

SingleBand ==
    Done =>
      LET bands == BandsOf(weather)
          fired == {i \in 1..5 : bands[i].alerts # <<>>}
      IN
      /\ Cardinality(fired) = 1 =>
           LET b == bands[CHOOSE i \in fired : TRUE] IN
           /\ Result.score = 100 - b.deduction
           /\ Result.alerts = b.alerts
           /\ Result.recommendations = <<RecommendationOf(b.alerts[1])>>
      /\ weather = ScenarioC =>
           Result = [score |-> 85, suitability |-> "excellent",
                     alerts |-> <<"Hot weather">>,
                     recommendations |-> <<"Drink water regularly">>]
      /\ weather = ScenarioD =>
           /\ Result.score = 75
           /\ Result.suitability = "good"
           /\ Result.alerts = <<"Rain likely in next few hours">>

\* the forecast 75,10,10,10,10,10 alone has been scored
SingleBandWitness == Done /\ weather = ScenarioD

(* C16: a current field (temperature, wind speed, precipitation, weather  *)
(* code) missing from the provider response is absent in the WeatherInfo  *)
(* handed to the scorer, never 0 or another number; the current           *)
(* precipitation probability is absent when the hourly probability series *)
(* is missing or empty; a field that is there keeps its value.            *)
ResponseField(f) ==
    IF data[1].current = <<>> THEN <<>> ELSE data[1].current[1][f]

ProbabilitySeriesMissingOrEmpty ==
    \/ data[1].hourly = <<>>
    \/ data[1].hourly[1].precipitation_probability = <<>>
    \/ data[1].hourly[1].precipitation_probability[1] = <<>>

DeserializationKeepsAbsence ==
    (Done /\ data # <<>>) =>
      /\ weather.temperatureC = ResponseField("temperature_2m")
      /\ weather.windSpeed = ResponseField("wind_speed_10m")
      /\ weather.precipitation = ResponseField("precipitation")
      /\ weather.weatherCode = ResponseField("weather_code")
      /\ \A f \in {"temperature_2m", "wind_speed_10m", "precipitation", "weather_code"} :
           ResponseField(f) = <<>> =>
             /\ f = "temperature_2m" => Len(weather.temperatureC) = 0
             /\ f = "wind_speed_10m" => Len(weather.windSpeed) = 0
             /\ f = "precipitation" => Len(weather.precipitation) = 0
             /\ f = "weather_code" => Len(weather.weatherCode) = 0
      /\ ProbabilitySeriesMissingOrEmpty => Len(weather.precipitationProbability) = 0
      /\ ~ProbabilitySeriesMissingOrEmpty =>
           weather.precipitationProbability =
             <<data[1].hourly[1].precipitation_probability[1][1]>>
      /\ Result = calculateRidingConditions(WithDefaults(weather))

\* a response without wind speed and with an empty probability series has
\* been turned into a reading without wind speed and probability
DeserializationKeepsAbsenceWitness ==
    /\ Done
    /\ data # <<>>
    /\ data[1].current # <<>>
    /\ data[1].current[1].wind_speed_10m = <<>>
    /\ data[1].current[1].temperature_2m = <<0>>
    /\ data[1].hourly # <<>>
    /\ data[1].hourly[1].precipitation_probability = << <<>> >>
    /\ weather.windSpeed = <<>>
    /\ weather.temperatureC = <<0>>
    /\ weather.precipitationProbability = <<>>

(* C17: the weather-code classifier never raises; for every integer code  *)
(* outside its lookup table it returns the label "Unknown" and the        *)
(* thermometer symbol; for an absent code it returns the question-mark    *)
(* symbol, with the label "Unknown" on the forecast screen and the empty  *)
(* label on the home screen.                                              *)
Returned == returned # <<>>

\* the codes of the lookup table of each copy
MappedCodes(screen) ==
    {0, 1, 2, 3, 45, 48, 51, 53, 55, 61, 63, 65, 71, 73, 75, 80, 81, 82, 95, 96, 99}
    \cup (IF screen = "forecast" THEN {56, 57, 66, 67, 77, 85, 86} ELSE {})

Unmapped == args.code # <<>> /\ args.code[1] \notin MappedCodes(args.screen)

SymbolOn(screen, code) ==
    IF screen = "home" THEN weatherEmoji(code) ELSE weatherEmoji_006(code)

ClassifierFallback ==
    Returned =>
      /\ returned[1].label \in STRING
      /\ returned[1].symbol \in STRING
      /\ Unmapped => /\ returned[1].label = "Unknown"
                     /\ returned[1].symbol = "thermometer"
      /\ args.code = <<>> =>
           /\ returned[1].symbol = "question"
           /\ returned[1].label = IF args.screen = "forecast" THEN "Unknown" ELSE ""
      /\ (args.code # <<>> /\ ~Unmapped) =>
           /\ returned[1].label \notin {"Unknown", ""}
           /\ returned[1].symbol \notin {"thermometer", "question"}

\* the home screen's card has been rendered for an absent code
ClassifierFallbackWitness ==
    /\ Returned
    /\ args.screen = "home"
    /\ args.code = <<>>
    /\ returned[1] = [label |-> "", symbol |-> "question"]

(* C17 as claimed: "Unknown" both for an absent code and for every code   *)
(* outside the lookup table, and in both cases the same generic symbol.   *)
ClassifierUnknownSameSymbol ==
    (Returned /\ (args.code = <<>> \/ Unmapped)) =>
      /\ returned[1].label = "Unknown"
      /\ returned[1].symbol = SymbolOn(args.screen, <<>>)
      /\ \A c \in -1..MaxCode :
           c \notin MappedCodes(args.screen) =>
             returned[1].symbol = SymbolOn(args.screen, <<c>>)

(* C18: formatDistance gives "" for an absent distance, the rounded whole  *)
(* number of metres with the suffix "m" for a distance below 1000, and    *)
(* kilometres with one decimal and the suffix "km" from 1000 on; no       *)
(* distance below 1000 is shown as 1000 or more metres.                   *)
DistanceRendering ==
    Returned =>
      /\ args = <<>> => returned[1] = ""
      /\ (args # <<>> /\ args[1] < 10000) =>
           \E n \in 0..999 : returned[1] = ToString(n) \o " m"
      /\ (args # <<>> /\ args[1] >= 10000) =>
           \E whole \in 0..99, tenth \in 0..9 :
             returned[1] = ToString(whole) \o "." \o ToString(tenth) \o " km"

(* C19: for a zoom level z >= 0 and a longitude in [-180, 180],           *)
(* latLonToTile returns x = floor((lon + 180) / 360 * 2^z), and x is a    *)
(* tile index of that zoom: 0 <= x <= 2^z - 1.                            *)
TileXInRange ==
    Returned =>
      /\ returned[1].x * 360 <= (args.lon + 180) * 2 ^ args.zoom
      /\ (args.lon + 180) * 2 ^ args.zoom < (returned[1].x + 1) * 360
      /\ 0 <= returned[1].x
      /\ returned[1].x <= 2 ^ args.zoom - 1

(* C20: haversineMeters is symmetric: the distance from a to b is the     *)
(* distance from b to a.                                                  *)
DistanceSymmetric ==
    Returned =>
      returned[1] = haversineMeters(args.lat2, args.lon2, args.lat1, args.lon1)

\* two points of different latitude and longitude have been measured
DistanceSymmetricWitness ==
    /\ Returned
    /\ args.lat1 = 0 /\ args.lon1 = 0
    /\ args.lat2 = 60 /\ args.lon2 = 60
    /\ returned[1] > 0

---------------------------------------------------------------------------
(* Vocabulary of the loadData properties *)

\* the scorer has been invoked in run r: its weather promise carries a reading
Scored(r) == runs[r].weatherPromise # Pending /\ runs[r].weatherPromise[1] # <<>>

\* the weather fetch of run r has failed
WeatherFailed(r) == runs[r].weatherPromise = Settled(<<>>)

InFlight(r) == runs[r].pc # "done"

(* C21: in a loadData run the scorer is invoked only after the weather,   *)
(* places and geocoding fetches of that run have been joined: never while *)
(* the address or the places fetch of the run is still pending.           *)
ScorerAfterJoin ==
    \A r \in DOMAIN runs :
      Scored(r) =>
        /\ runs[r].addressPromise # Pending
        /\ runs[r].placesPromise # Pending

(* C22: whenever a weather reading is stored, the stored RidingConditions *)
(* is the scorer's output for exactly that reading.                       *)
RidingConditionsOfStoredWeather ==
    weather # <<>> => ridingConditions = <<calculateRidingConditions(weather[1])>>

(* C23: when the weather fetch of a run fails, the failure stops at the   *)
(* fetch: the step that catches it invokes no scorer and sets no error,   *)
(* and the join of that run stores an absent weather, applies the run's   *)
(* address and places, sets no error and ends with loading false.         *)
WeatherFailureContained ==
    [][\A r \in DOMAIN runs :
         /\ (runs[r].weatherPromise = Pending /\ WeatherFailed(r)') =>
              /\ ridingConditions' = ridingConditions
              /\ error' = error
              /\ weather' = weather
         /\ (runs[r].pc = "fetching" /\ WeatherFailed(r) /\ runs'[r].pc = "done") =>
              /\ weather' = <<>>
              /\ address' = runs[r].addressPromise[1]
              /\ places' = runs[r].placesPromise[1]
              /\ error' = error
              /\ ridingConditions' = ridingConditions
              /\ loading' = FALSE]_vars

\* a run whose weather fetch failed has joined: its address and places are
\* on the screen, the weather is absent and no error is shown
WeatherFailureContainedWitness ==
    \E r \in DOMAIN runs :
      /\ runs[r].pc = "done"
      /\ WeatherFailed(r)
      /\ weather = <<>>
      /\ address # <<>> /\ address = runs[r].addressPromise[1]
      /\ places # <<>> /\ places = runs[r].placesPromise[1]
      /\ error = <<>>
      /\ ~loading

---------------------------------------------------------------------------
(* Vocabulary of the map preview's properties *)

LastIndex == Len(mapProviders) - 1

FailedToLoad == <<"Image failed to load">>

FirstHost ==
    IF googleMapsStaticKey # <<>> THEN "maps.googleapis.com" ELSE "maps.wikimedia.org"

\* the footprint of the reset effect: first provider, no error, no message
ResetToFirst ==
    /\ mapProviderIndex' = 0
    /\ ~mapError'
    /\ mapErrorMessage' = <<>>

AlertsPairedWithRecommendations ==
    Done =>
      /\ Len(Result.alerts) = Len(Result.recommendations)
      /\ \A i \in DOMAIN Result.alerts :
           Result.recommendations[i] = RecommendationOf(Result.alerts[i])

\* a result in which all five factors have reported
AlertsPairedWithRecommendationsWitness ==
    /\ Done
    /\ Len(Result.alerts) = 5
    /\ Len(Result.recommendations) = 5

\* data.hourly.precipitation_probability[0] of the response, when there is one
HourZero ==
    IF data = <<>> \/ data[1].hourly = <<>> THEN <<>>
    ELSE LET pp == data[1].hourly[1].precipitation_probability IN
         IF pp = <<>> \/ pp[1] = <<>> THEN <<>> ELSE <<pp[1][1]>>

(* C26: on the home screen the reading's precipitationProbability is the  *)
(* response's hour 0, so when hour 0 exceeds 70 the lookahead alert is     *)
(* joined by a precipitation band of at least 40: the score is at most 35  *)
(* and the suitability poor or dangerous.                                  *)
LookaheadNeverAloneOnHourZero ==
    (Done /\ HourZero # <<>> /\ HourZero[1] > 70) =>
      /\ LookaheadAlert \in Range(Result.alerts)
      /\ \E a \in Range(Result.alerts) : FactorOf(a) = 3 /\ DeductionOf(a) >= 40
      /\ Result.score <= 35
      /\ Result.suitability \in {"poor", "dangerous"}

\* hour 0 is 71 and nothing else deducts: 100 - 40 - 25
LookaheadNeverAloneOnHourZeroWitness ==
    /\ Done
    /\ HourZero = <<71>>
    /\ Result.alerts = <<"Rain expected", LookaheadAlert>>
    /\ Result.score = 35
    /\ Result.suitability = "poor"

(* C27: the loading flag is true whenever at least one loadData           *)
(* invocation is still in flight, and false once none is.                 *)
LoadingWhileInFlight ==
    loading <=> \E r \in DOMAIN runs : InFlight(r)

(* C28: whenever the provider list is non-empty, mapProviderIndex is a    *)
(* valid index into it; a retry after exhaustion wraps to index 0 and     *)
(* clears mapError; a change of the provider list resets the index to 0.  *)
IndexValid ==
    /\ [](mapProviders # <<>> =>
            (0 <= mapProviderIndex /\ mapProviderIndex < Len(mapProviders)))
    /\ [][/\ (mapError /\ ~mapError' /\ mapErrorMessage' = FailedToLoad) =>
               mapProviderIndex' = 0
          /\ mapProviders' # mapProviders => mapProviderIndex' = 0]_vars

\* a retry after the last provider failed: back at the first provider, the
\* error flag cleared, the message of the failure still shown
IndexValidWitness ==
    /\ mapProviders # <<>>
    /\ mapProviderIndex = 0
    /\ ~mapError
    /\ mapErrorMessage = FailedToLoad

---------------------------------------------------------------------------
(* Vocabulary of the trip store's properties *)

\* the list stored under a key; [] when nothing is stored
Stored(key) == IF storage[key] = <<>> THEN <<>> ELSE JSONparse(storage[key][1])

(* C29: every waypoint whose saveWaypoint call has returned, and for      *)
(* whose id no deleteWaypoint call was made, is in the stored waypoint    *)
(* list.                                                                  *)
NoSavedWaypointLost ==
    \A c \in DOMAIN calls :
      (/\ calls[c].op = "saveWaypoint"
       /\ calls[c].pc = "returned"
       /\ ~\E d \in DOMAIN calls :
             calls[d].op = "deleteWaypoint" /\ calls[d].arg = calls[c].result[1].id)
      => calls[c].result[1] \in Range(Stored(STORAGE_KEY_WAYPOINTS))

(* C30: the stored waypoints have pairwise distinct ids, and so have the  *)
(* stored routes.                                                         *)
StoredIdsDistinct ==
    \A key \in {STORAGE_KEY_WAYPOINTS, STORAGE_KEY_ROUTES} :
      \A i, j \in DOMAIN Stored(key) :
        i # j => Stored(key)[i].id # Stored(key)[j].id

=============================================================================
